---- MODULE Spec2Model ----
(***************************************************************************)
(* Cart & pricing state engine of the catalogue front end                  *)
(* (src/src/context/CartContext.tsx): the cart lines of each browser tab,  *)
(* the shared localStorage entry, the debounced save timer and the         *)
(* "storage" event listener.                                               *)
(*                                                                         *)
(* Representation.  A JavaScript object is a TLA+ record; a property whose *)
(* value is undefined is a field that is absent from the record (the two   *)
(* are indistinguishable to `??`, to `typeof` and to JSON.stringify).  An  *)
(* optional argument is the empty sequence (undefined) or a one-element    *)
(* sequence (the value).  Strings are TLA+ strings.  Prices are integers   *)
(* (CLP has no decimals).                                                  *)
(***************************************************************************)
EXTENDS Integers, Sequences, FiniteSets, TLC

VARIABLES
  storage,       \* value of localStorage[STORAGE_KEY], as a JSON text
  items,         \* items[t]: the React state `items` of tab t
  timer,         \* timer[t]: the pending timeouts of the save effect of tab t
  memo,          \* memo[t]: the values the two useMemo hooks of tab t hold
  now,           \* milliseconds since the first mount, where time is modelled
  inbox,         \* inbox[t]: "storage" events dispatched to tab t, not yet handled
  mounted,       \* tabs whose CartProvider is mounted
  last,          \* the step that produced the current state (history)
  ops,           \* number of add/update/remove/clear calls so far
  extWrites,     \* number of writes by other documents of the origin so far
  overrideUsed   \* some add was called with overrideUnitPrice (history)

vars == <<storage, items, timer, memo, now, inbox, mounted, last, ops, extWrites, overrideUsed>>

(***************************************************************************)
(* Program constants                                                       *)
(***************************************************************************)
STORAGE_KEY == "swag_cart_v1"
STORAGE_VERSION == 1
HARD_MAX == 10000
SAVE_DEBOUNCE_MS == 120

(***************************************************************************)
(* Bounds of the model                                                     *)
(***************************************************************************)
MaxOps == 2          \* add/update/remove/clear calls in one behaviour
MaxExternal == 1     \* writes to the key by documents outside the model

Tabs == {1, 2}

(***************************************************************************)
(* JavaScript helpers                                                      *)
(***************************************************************************)
Undefined == <<>>
Some(v) == <<v>>
\* r.f as an optional value
Get(r, f) == IF f \in DOMAIN r THEN <<r[f]>> ELSE <<>>
\* v ?? d
Nullish(v, d) == IF v = <<>> THEN d ELSE v[1]
\* Math.min, Math.max of two numbers
MathMin(a, b) == IF a <= b THEN a ELSE b
MathMax(a, b) == IF a >= b THEN a ELSE b
\* the object {}
EmptyObject == [f \in {} |-> 0]
\* { ...base, ...over }
Spread(base, over) ==
  [f \in DOMAIN base \cup DOMAIN over |->
     IF f \in DOMAIN over THEN over[f] ELSE base[f]]
\* { ...r, f: v } where v may be undefined
Assign(r, f, v) ==
  IF v = <<>> THEN [g \in DOMAIN r \ {f} |-> r[g]]
  ELSE [g \in DOMAIN r \cup {f} |-> IF g = f THEN v[1] ELSE r[g]]
\* Array.prototype.filter with the predicate given as the set of kept indices
RECURSIVE FilterSeq(_, _, _)
FilterSeq(s, keep, i) ==
  IF i > Len(s) THEN <<>>
  ELSE (IF i \in keep THEN <<s[i]>> ELSE <<>>) \o FilterSeq(s, keep, i + 1)

(***************************************************************************)
(* Utils of CartContext.tsx                                                *)
(***************************************************************************)
\* clampQty(q, stock?, min = 1)
clampQty(q, stock, min) == MathMax(min, MathMin(q, Nullish(stock, HARD_MAX)))

\* variantKey(id, color?, size?): template string `${id}|${color ?? ""}|${size ?? ""}`
variantKey(id, color, size) ==
  ToString(id) \o "|" \o Nullish(color, "") \o "|" \o Nullish(size, "")

\* key of a cart line
lineKey(it) == variantKey(it.id, Get(it, "selectedColor"), Get(it, "selectedSize"))

\* the for-of loop of bestUnitPrice, from index i with running minimum min
RECURSIVE bestLoop(_, _, _, _)
bestLoop(qty, breaks, i, min) ==
  IF i > Len(breaks) THEN min
  ELSE bestLoop(qty, breaks, i + 1,
                IF qty >= breaks[i].minQty THEN MathMin(min, breaks[i].price) ELSE min)

\* bestUnitPrice(qty, basePrice, breaks?)
bestUnitPrice(qty, basePrice, breaks) ==
  IF breaks = <<>> \/ Len(breaks[1]) = 0 THEN basePrice
  ELSE bestLoop(qty, breaks[1], 1, basePrice)

(***************************************************************************)
(* JSON texts.  The value stored under the key is modelled by what         *)
(* JSON.parse makes of it:                                                 *)
(*   [kind |-> "absent"]                 getItem returns null              *)
(*   [kind |-> "invalid"]                a text JSON.parse rejects         *)
(*   [kind |-> "array", elems |-> e]     a bare array (legacy format)      *)
(*   [kind |-> "object", props |-> r]    an object; r.items, when present, *)
(*                                       is an array of elements           *)
(* An array element is [kind |-> "null"] or                                *)
(*   [kind |-> "object", fields |-> r, nonNumber |-> S]                    *)
(* where r holds the well-typed properties and S names the properties      *)
(* among id, basePrice, quantity, unitPrice, totalPrice whose value is     *)
(* present but not a number (a string, null, ...).  An element of          *)
(* priceBreaks is a record [minQty, price] or the record [isNull |-> TRUE] *)
(* for a JSON null.                                                        *)
(***************************************************************************)
AbsentText == [kind |-> "absent"]
InvalidText == [kind |-> "invalid"]
ArrayText(elems) == [kind |-> "array", elems |-> elems]
ObjectText(props) == [kind |-> "object", props |-> props]
NullElem == [kind |-> "null"]
Elem(fields, nonNumber) == [kind |-> "object", fields |-> fields, nonNumber |-> nonNumber]

\* typeof x.f === "number"
TypeofNumber(x, f) == f \in DOMAIN x.fields /\ f \notin x.nonNumber
\* x.f === undefined
IsUndefined(x, f) == f \notin DOMAIN x.fields /\ f \notin x.nonNumber

\* JSON.stringify of one cart line, as the element JSON.parse gives back
ToElem(it) == Elem(it, {})
\* JSON.stringify of a list of cart lines
StringifyItems(its) == [i \in 1..Len(its) |-> ToElem(its[i])]
\* JSON.stringify({ v: STORAGE_VERSION, items })
StringifyPayload(its) ==
  ObjectText([v |-> STORAGE_VERSION, items |-> StringifyItems(its)])

\* isValidItem(x)
isValidItem(x) ==
  /\ x.kind = "object"
  /\ TypeofNumber(x, "id")
  /\ TypeofNumber(x, "basePrice")
  /\ TypeofNumber(x, "quantity")
  /\ (TypeofNumber(x, "unitPrice") \/ IsUndefined(x, "unitPrice"))

\* bestUnitPrice throws a TypeError: a null entry is dereferenced by b.minQty
bestThrows(breaks) ==
  /\ breaks # <<>>
  /\ \E i \in 1..Len(breaks[1]) : "isNull" \in DOMAIN breaks[1][i]

\* the map callback recomputing both prices from the break table whatever
\* the element stores
loadedLineRecomputes(x) ==
  LET it == x.fields
      best == bestUnitPrice(it.quantity, it.basePrice, Get(it, "priceBreaks"))
  IN Spread(it, [unitPrice |-> best, totalPrice |-> best * it.quantity])

\* the object built by the map callback of loadInitial for a valid element
loadedLine(x) ==
  LET it == x.fields
      best == bestUnitPrice(it.quantity, it.basePrice, Get(it, "priceBreaks"))
      unit == IF TypeofNumber(x, "unitPrice") THEN it.unitPrice ELSE best
      total == IF TypeofNumber(x, "totalPrice") THEN it.totalPrice
               ELSE (IF TypeofNumber(x, "unitPrice") THEN it.unitPrice ELSE best)
                    * it.quantity
  IN Spread(it, [unitPrice |-> unit, totalPrice |-> total])

\* the map callback of loadInitial throws on this element: bestUnitPrice is
\* evaluated only when unitPrice is not a number
loadedLineThrows(x) ==
  /\ ~TypeofNumber(x, "unitPrice")
  /\ bestThrows(Get(x.fields, "priceBreaks"))

\* loadInitial() without the legacy format: a bare array loads as empty
loadInitialEnvelopeOnly(raw) ==
  IF raw.kind \in {"absent", "invalid", "array"} THEN <<>>
  ELSE LET elems == IF "items" \in DOMAIN raw.props THEN raw.props.items ELSE <<>>
           valid == FilterSeq(elems, {i \in 1..Len(elems) : isValidItem(elems[i])}, 1)
       IN IF \E i \in 1..Len(valid) : loadedLineThrows(valid[i]) THEN <<>>
          ELSE [i \in 1..Len(valid) |-> loadedLine(valid[i])]

\* loadInitial(), reading the stored text raw
loadInitial(raw) ==
  IF raw.kind = "absent" THEN <<>>
  ELSE IF raw.kind = "invalid" THEN <<>>
  ELSE LET elems == IF raw.kind = "array" THEN raw.elems
                    ELSE IF "items" \in DOMAIN raw.props THEN raw.props.items
                    ELSE <<>>
           valid == FilterSeq(elems, {i \in 1..Len(elems) : isValidItem(elems[i])}, 1)
       IN IF \E i \in 1..Len(valid) : loadedLineThrows(valid[i]) THEN <<>>
          ELSE [i \in 1..Len(valid) |-> loadedLine(valid[i])]

(***************************************************************************)
(* Inputs: the catalogue handed to add, the requests of the UI layer and   *)
(* the texts other documents of the origin may have left under the key.    *)
(***************************************************************************)
BreaksX == <<[minQty |-> 10, price |-> 900], [minQty |-> 5, price |-> 950]>>
BreaksY == <<[minQty |-> 2, price |-> 600]>>
ProductX == [id |-> 1, basePrice |-> 1000, stock |-> 50, maxQuantity |-> 40,
             priceBreaks |-> BreaksX]
ProductY == [id |-> 2, basePrice |-> 500, stock |-> 0, minQuantity |-> 1,
             priceBreaks |-> BreaksY]
ProductZ == [id |-> 3, basePrice |-> 200, minQuantity |-> 5, maxQuantity |-> 10]
Products == {ProductX, ProductY, ProductZ}
ProductIds == {p.id : p \in Products}

Quantities == {0 - 1, 0, 3, 5, 20000}
OverridePrices == {0, 700}

\* color/size selections; two of them collide under the '|' separator
NoVariant == EmptyObject
VariantA == [color |-> "a|b", size |-> "c"]
VariantB == [color |-> "a", size |-> "b|c"]
MatchOptions(id) == IF id = 1 THEN {NoVariant, VariantA, VariantB} ELSE {NoVariant}
AddOptions(id) ==
  MatchOptions(id) \cup {[overrideUnitPrice |-> u] : u \in OverridePrices}

\* stored records
RecX5 == Elem(Spread(ProductX, [quantity |-> 5, unitPrice |-> 950, totalPrice |-> 4750]), {})
RecZ3 == Elem([id |-> 3, basePrice |-> 200, quantity |-> 3], {})
RecNoId == Elem([basePrice |-> 200, quantity |-> 3], {"id"})
RecStrUnit == Elem([id |-> 3, basePrice |-> 200, quantity |-> 3], {"unitPrice"})
RecZeroQty == Elem(Spread(ProductY, [quantity |-> 0, unitPrice |-> 500, totalPrice |-> 0]), {})
RecEdited == Elem(Spread(ProductX, [quantity |-> 5, unitPrice |-> 7, totalPrice |-> 99]), {})
RecX3 == Elem(Spread(ProductX, [quantity |-> 3, unitPrice |-> 1000, totalPrice |-> 3000]), {})
RecNullBreak == Elem([id |-> 3, basePrice |-> 200, quantity |-> 3,
                      priceBreaks |-> <<[isNull |-> TRUE]>>], {})

Envelope(elems) == ObjectText([v |-> STORAGE_VERSION, items |-> elems])
StoredTexts ==
  { AbsentText,
    InvalidText,
    ArrayText(<<RecX5, RecZ3>>),
    Envelope(<<RecX5, RecZ3>>),
    Envelope(<<NullElem, RecNoId, RecX5, RecStrUnit>>),
    Envelope(<<RecZeroQty, RecEdited>>),
    Envelope(<<RecX5, RecX3>>),
    Envelope(<<RecX5, RecNullBreak>>),
    ObjectText([v |-> STORAGE_VERSION]) }

\* texts written by other documents while the tabs run
ExternalTexts ==
  { AbsentText,
    ArrayText(<<RecX5, RecZ3>>),
    Envelope(<<RecZeroQty, RecEdited>>) }

(***************************************************************************)
(* One render of CartProvider: the derived values and the save effect      *)
(***************************************************************************)
\* items.reduce((s, it) => s + it[f], 0), from index i on
RECURSIVE sumFrom(_, _, _)
sumFrom(its, f, i) == IF i > Len(its) THEN 0 ELSE its[i][f] + sumFrom(its, f, i + 1)

\* what the hooks hold before the first render
NoMemo == [count |-> 0, subtotal |-> 0]

\* the two hooks with subtotal depending on [count] instead of [items]
renderMemoDepsCount(cached, its, depsChanged) ==
  [count |-> sumFrom(its, "quantity", 1),
   subtotal |-> IF sumFrom(its, "quantity", 1) # cached.count
                THEN sumFrom(its, "totalPrice", 1)
                ELSE cached.subtotal]

\* useMemo(..., [items]) for count and subtotal: recomputed when the
\* dependency `items` is a new array, the cached value otherwise
renderMemo(cached, its, depsChanged) ==
  IF depsChanged
  THEN [count |-> sumFrom(its, "quantity", 1), subtotal |-> sumFrom(its, "totalPrice", 1)]
  ELSE cached

\* a timeout of the save effect: the items its callback closes over, the
\* time of the setTimeout call, whether saveTimer.current holds its id, and
\* what caused the render that set it (history): "mount", "mutation" or
\* "reload"
Timeout(its, at, by) == [items |-> its, at |-> at, ref |-> TRUE, by |-> by]

\* clearTimeout(saveTimer.current)
clearTimeout(pending) == {k \in pending : ~k.ref}

\* the save effect without its clearTimeout: earlier timeouts stay pending
scheduleSaveNoClear(pending, its, at, by) ==
  {[k EXCEPT !.ref = FALSE] : k \in pending} \cup {Timeout(its, at, by)}

\* the save effect runs for a render with the items its
scheduleSave(pending, its, at, by) ==
  clearTimeout(pending) \cup {Timeout(its, at, by)}

\* the count and subtotal of the context value of tab t
count(t) == memo[t].count
subtotal(t) == memo[t].subtotal

\* setItems(next) and the render it causes
setItems(t, next, by) ==
  /\ items' = [items EXCEPT ![t] = next]
  /\ memo' = [memo EXCEPT ![t] = renderMemo(memo[t], next, TRUE)]
  /\ timer' = [timer EXCEPT ![t] = scheduleSave(timer[t], next, now, by)]

(***************************************************************************)
(* Initial state: CartProvider of tab 1 has mounted on some stored text.   *)
(* useState(loadInitial) has run, and so has the save effect of the first  *)
(* render, which schedules a write.                                        *)
(***************************************************************************)
InitFor(tabs) ==
  /\ storage \in StoredTexts
  /\ items = [t \in Tabs |-> IF t \in tabs THEN loadInitial(storage) ELSE <<>>]
  /\ timer = [t \in Tabs |-> IF t \in tabs THEN scheduleSave({}, loadInitial(storage), 0, "mount")
                              ELSE {}]
  /\ memo = [t \in Tabs |-> IF t \in tabs
                             THEN renderMemo(NoMemo, loadInitial(storage), TRUE)
                             ELSE NoMemo]
  /\ now = 0
  /\ inbox = [t \in Tabs |-> <<>>]
  /\ mounted = tabs
  /\ last = [op |-> "mount"]
  /\ ops = 0
  /\ extWrites = 0
  /\ overrideUsed = FALSE

Init == InitFor({1})

(***************************************************************************)
(* The four operations of the context value                                *)
(***************************************************************************)
\* prev.findIndex(pred): first index whose key is key, 0 for -1
findIndex(prev, key) ==
  IF \E i \in 1..Len(prev) : lineKey(prev[i]) = key
  THEN CHOOSE i \in 1..Len(prev) :
         /\ lineKey(prev[i]) = key
         /\ \A j \in 1..(i - 1) : lineKey(prev[j]) # key
  ELSE 0

\* add's updater with the merge branch overwriting the quantity instead of
\* summing into it
addUpdaterNoSum(prev, product, q0, options) ==
  LET key == variantKey(product.id, Get(options, "color"), Get(options, "size"))
      idx == findIndex(prev, key)
      qty == clampQty(q0, Get(product, "stock"), 1)
      unit == Nullish(Get(options, "overrideUnitPrice"),
                      bestUnitPrice(qty, product.basePrice, Get(product, "priceBreaks")))
      line == Spread(product, [quantity |-> qty, unitPrice |-> unit,
                               totalPrice |-> unit * qty])
  IN IF idx > 0
     THEN [prev EXCEPT ![idx] = Spread(prev[idx], [quantity |-> qty, unitPrice |-> unit,
                                                   totalPrice |-> unit * qty])]
     ELSE Append(prev, Assign(Assign(line, "selectedColor", Get(options, "color")),
                              "selectedSize", Get(options, "size")))

\* add's updater with the merge branch pricing from the break table even
\* when the caller passes an override
addUpdaterMergeReprices(prev, product, q0, options) ==
  LET key == variantKey(product.id, Get(options, "color"), Get(options, "size"))
      idx == findIndex(prev, key)
  IN IF idx > 0
     THEN LET nextQty == clampQty(prev[idx].quantity + q0, Get(product, "stock"), 1)
              unit == bestUnitPrice(nextQty, product.basePrice, Get(product, "priceBreaks"))
          IN [prev EXCEPT ![idx] = Spread(prev[idx], [quantity |-> nextQty,
                                                      unitPrice |-> unit,
                                                      totalPrice |-> unit * nextQty])]
     ELSE LET unit == Nullish(Get(options, "overrideUnitPrice"),
                              bestUnitPrice(q0, product.basePrice,
                                            Get(product, "priceBreaks")))
          IN Append(prev, Assign(Assign(Spread(product, [quantity |-> q0,
                                                         unitPrice |-> unit,
                                                         totalPrice |-> unit * q0]),
                                        "selectedColor", Get(options, "color")),
                                 "selectedSize", Get(options, "size")))

\* the updater passed to setItems by add
addUpdater(prev, product, q0, options) ==
  LET key == variantKey(product.id, Get(options, "color"), Get(options, "size"))
      idx == findIndex(prev, key)
  IN IF idx > 0
     THEN LET current == prev[idx]
              nextQty == clampQty(current.quantity + q0, Get(product, "stock"), 1)
              unit == Nullish(Get(options, "overrideUnitPrice"),
                              bestUnitPrice(nextQty, product.basePrice,
                                            Get(product, "priceBreaks")))
              updated == Spread(current, [quantity |-> nextQty, unitPrice |-> unit,
                                          totalPrice |-> unit * nextQty])
          IN [prev EXCEPT ![idx] = updated]
     ELSE LET unit == Nullish(Get(options, "overrideUnitPrice"),
                              bestUnitPrice(q0, product.basePrice,
                                            Get(product, "priceBreaks")))
              newItem ==
                Assign(Assign(Spread(product, [quantity |-> q0, unitPrice |-> unit,
                                               totalPrice |-> unit * q0]),
                              "selectedColor", Get(options, "color")),
                       "selectedSize", Get(options, "size"))
          IN Append(prev, newItem)

\* add(product, quantity, options)
Add(t, product, quantity, options) ==
  LET minQ == MathMax(1, Nullish(Get(product, "minQuantity"), 1))
      q0 == clampQty(quantity, Get(product, "stock"), minQ)
      key == variantKey(product.id, Get(options, "color"), Get(options, "size"))
  IN /\ t \in mounted
     /\ ops < MaxOps
     /\ IF q0 <= 0
        THEN UNCHANGED <<items, timer, memo>>
        ELSE setItems(t, addUpdater(items[t], product, q0, options), "mutation")
     /\ last' = [op |-> "add", tab |-> t, id |-> product.id, quantity |-> quantity,
                 options |-> options, hit |-> findIndex(items[t], key) > 0]
     /\ ops' = ops + 1
     /\ overrideUsed' = (overrideUsed \/ "overrideUnitPrice" \in DOMAIN options)
     /\ UNCHANGED <<now, storage, inbox, mounted, extWrites>>

\* the quantity update keeps for a matching line (0: the line is dropped)
updateClamp(it, quantity) ==
  IF "stock" \in DOMAIN it /\ it.stock # 0 /\ it.stock > 0
  THEN MathMax(0, MathMin(quantity, it.stock))
  ELSE MathMax(0, quantity)

\* update's loop with a floor of 1 on the quantity: a request for 0 keeps
\* the line at quantity 1
RECURSIVE updateLoopFloorOne(_, _, _, _)
updateLoopFloorOne(prev, key, quantity, i) ==
  IF i > Len(prev) THEN <<>>
  ELSE LET it == prev[i]
           clamped == MathMax(1, updateClamp(it, quantity))
           unit == bestUnitPrice(clamped, it.basePrice, Get(it, "priceBreaks"))
           out == IF lineKey(it) # key THEN <<it>>
                  ELSE <<Spread(it, [quantity |-> clamped, unitPrice |-> unit,
                                     totalPrice |-> unit * clamped])>>
       IN out \o updateLoopFloorOne(prev, key, quantity, i + 1)

\* the loop of the updater passed to setItems by update, from index i
RECURSIVE updateLoop(_, _, _, _)
updateLoop(prev, key, quantity, i) ==
  IF i > Len(prev) THEN <<>>
  ELSE LET it == prev[i]
           clamped == updateClamp(it, quantity)
           unit == bestUnitPrice(clamped, it.basePrice, Get(it, "priceBreaks"))
           out == IF lineKey(it) # key THEN <<it>>
                  ELSE IF clamped <= 0 THEN <<>>
                  ELSE <<Spread(it, [quantity |-> clamped, unitPrice |-> unit,
                                     totalPrice |-> unit * clamped])>>
       IN out \o updateLoop(prev, key, quantity, i + 1)

\* update(productId, quantity, options)
Update(t, productId, quantity, options) ==
  LET key == variantKey(productId, Get(options, "color"), Get(options, "size"))
  IN /\ t \in mounted
     /\ ops < MaxOps
     /\ setItems(t, updateLoop(items[t], key, quantity, 1), "mutation")
     /\ last' = [op |-> "update", tab |-> t, id |-> productId, quantity |-> quantity,
                 options |-> options, hit |-> findIndex(items[t], key) > 0]
     /\ ops' = ops + 1
     /\ UNCHANGED <<now, storage, inbox, mounted, extWrites, overrideUsed>>

\* remove(productId, options)
Remove(t, productId, options) ==
  LET key == variantKey(productId, Get(options, "color"), Get(options, "size"))
      prev == items[t]
  IN /\ t \in mounted
     /\ ops < MaxOps
     /\ setItems(t, FilterSeq(prev, {i \in 1..Len(prev) : lineKey(prev[i]) # key}, 1),
                 "mutation")
     /\ last' = [op |-> "remove", tab |-> t, id |-> productId, options |-> options,
                 hit |-> findIndex(prev, key) > 0,
                 afterZero |-> /\ last.op = "update"
                               /\ last.tab = t
                               /\ last.quantity <= 0
                               /\ last.hit
                               /\ last.id = productId
                               /\ last.options = options]
     /\ ops' = ops + 1
     /\ UNCHANGED <<now, storage, inbox, mounted, extWrites, overrideUsed>>

\* clear()
Clear(t) ==
  /\ t \in mounted
  /\ ops < MaxOps
  /\ setItems(t, <<>>, "mutation")
  /\ last' = [op |-> "clear", tab |-> t]
  /\ ops' = ops + 1
  /\ UNCHANGED <<now, storage, inbox, mounted, extWrites, overrideUsed>>

(***************************************************************************)
(* Persistence: the debounced save effect and the storage listener         *)
(***************************************************************************)
\* by (history): what caused the write, "mount", "mutation" or "reload" for
\* the write of a timeout set by such a render, "external" otherwise
StorageEvent(key, newValue, by) == [key |-> key, newValue |-> newValue, by |-> by]

\* the user agent queues a storage event in every other mounted document
dispatch(from, ev) ==
  [u \in Tabs |-> IF u \in mounted /\ u # from THEN Append(inbox[u], ev) ELSE inbox[u]]

\* the callback writing the bare array of the items, the legacy format
saveCallbackBareArray(t, k, ok) ==
  LET text == ArrayText(StringifyItems(k.items))
  IN /\ k \in timer[t]
     /\ IF ok
        THEN /\ storage' = text
             /\ inbox' = IF text # storage
                         THEN dispatch(t, StorageEvent(STORAGE_KEY, text, k.by))
                         ELSE inbox
        ELSE UNCHANGED <<storage, inbox>>
     /\ timer' = [timer EXCEPT ![t] = timer[t] \ {k}]
     /\ last' = [op |-> "save", tab |-> t, ok |-> ok, age |-> now - k.at,
                 payload |-> k.items, by |-> k.by]
     /\ UNCHANGED <<items, memo, now, mounted, ops, extWrites, overrideUsed>>

\* the callback with a failure handler that rolls the cart back to what
\* storage holds
saveCallbackRollsBack(t, k, ok) ==
  LET text == StringifyPayload(k.items)
  IN /\ k \in timer[t]
     /\ IF ok
        THEN /\ storage' = text
             /\ inbox' = IF text # storage
                         THEN dispatch(t, StorageEvent(STORAGE_KEY, text, k.by))
                         ELSE inbox
             /\ UNCHANGED <<items, memo>>
        ELSE /\ items' = [items EXCEPT ![t] = loadInitial(storage)]
             /\ memo' = [memo EXCEPT ![t] = renderMemo(memo[t], loadInitial(storage), TRUE)]
             /\ UNCHANGED <<storage, inbox>>
     /\ timer' = [timer EXCEPT ![t] = timer[t] \ {k}]
     /\ last' = [op |-> "save", tab |-> t, ok |-> ok, age |-> now - k.at,
                 payload |-> k.items, by |-> k.by]
     /\ UNCHANGED <<now, mounted, ops, extWrites, overrideUsed>>

\* the callback of the pending timeout k of tab t runs; setItem succeeds
\* (ok) or throws (quota exceeded), which the callback catches and ignores
saveCallback(t, k, ok) ==
  LET text == StringifyPayload(k.items)
  IN /\ k \in timer[t]
     /\ IF ok
        THEN /\ storage' = text
             /\ inbox' = IF text # storage
                         THEN dispatch(t, StorageEvent(STORAGE_KEY, text, k.by))
                         ELSE inbox
        ELSE UNCHANGED <<storage, inbox>>
     /\ timer' = [timer EXCEPT ![t] = timer[t] \ {k}]
     /\ last' = [op |-> "save", tab |-> t, ok |-> ok, age |-> now - k.at,
                 payload |-> k.items, by |-> k.by]
     /\ UNCHANGED <<items, memo, now, mounted, ops, extWrites, overrideUsed>>

\* a timeout of the save effect fires and the write succeeds (time abstracted)
SaveFire(t) == \E k \in timer[t] : saveCallback(t, k, TRUE)

\* a timeout of the save effect fires and setItem throws
SaveThrows(t) == \E k \in timer[t] : saveCallback(t, k, FALSE)

\* onStorage decides to rehydrate: JSON.stringify(next) !== JSON.stringify(items)
storageDiffers(e, its) ==
  /\ e.key = STORAGE_KEY
  /\ e.newValue.kind \notin {"absent", "invalid"}
  /\ LET parsed == e.newValue
         next == IF parsed.kind = "object" /\ "items" \in DOMAIN parsed.props
                 THEN parsed.props.items ELSE <<>>
     IN next # StringifyItems(its)

\* onStorage(e) for the oldest undelivered event of tab t
OnStorage(t) ==
  /\ t \in mounted
  /\ inbox[t] # <<>>
  /\ LET e == Head(inbox[t])
     IN /\ IF storageDiffers(e, items[t])
           THEN setItems(t, loadInitial(storage), "reload")
           ELSE UNCHANGED <<items, timer, memo>>
        /\ last' = [op |-> "storage", tab |-> t, reloaded |-> storageDiffers(e, items[t])]
  /\ inbox' = [inbox EXCEPT ![t] = Tail(inbox[t])]
  /\ UNCHANGED <<now, storage, mounted, ops, extWrites, overrideUsed>>

\* another document of the origin sets (or removes) the cart key
ExternalWrite(text) ==
  /\ extWrites < MaxExternal
  /\ text # storage
  /\ storage' = text
  /\ inbox' = dispatch(0, StorageEvent(STORAGE_KEY, text, "external"))
  /\ last' = [op |-> "external", key |-> STORAGE_KEY]
  /\ extWrites' = extWrites + 1
  /\ UNCHANGED <<now, items, timer, memo, mounted, ops, overrideUsed>>

\* another document of the origin changes some other key
ExternalOtherKey ==
  /\ extWrites < MaxExternal
  /\ inbox' = dispatch(0, StorageEvent("other_key", InvalidText, "external"))
  /\ last' = [op |-> "external", key |-> "other_key"]
  /\ extWrites' = extWrites + 1
  /\ UNCHANGED <<now, storage, items, timer, memo, mounted, ops, overrideUsed>>

\* an unmount whose save effect returns no cleanup: the timeout stays pending
TeardownNoCleanup(t) ==
  /\ t \in mounted
  /\ mounted' = mounted \ {t}
  /\ inbox' = [inbox EXCEPT ![t] = <<>>]
  /\ last' = [op |-> "unmount", tab |-> t, pending |-> timer[t] # {}]
  /\ UNCHANGED <<now, storage, items, memo, timer, ops, extWrites, overrideUsed>>

\* CartProvider of tab t unmounts: both effect cleanups run
Teardown(t) ==
  /\ t \in mounted
  /\ mounted' = mounted \ {t}
  /\ timer' = [timer EXCEPT ![t] = clearTimeout(timer[t])]
  /\ inbox' = [inbox EXCEPT ![t] = <<>>]
  /\ last' = [op |-> "unmount", tab |-> t, pending |-> timer[t] # {}]
  /\ UNCHANGED <<now, storage, items, memo, ops, extWrites, overrideUsed>>

Next ==
  \/ \E t \in Tabs, p \in Products, q \in Quantities :
       \E o \in AddOptions(p.id) : Add(t, p, q, o)
  \/ \E t \in Tabs, id \in ProductIds, q \in Quantities :
       \E o \in MatchOptions(id) : Update(t, id, q, o)
  \/ \E t \in Tabs, id \in ProductIds : \E o \in MatchOptions(id) : Remove(t, id, o)
  \/ \E t \in Tabs : Clear(t)
  \/ \E t \in Tabs : SaveFire(t)
  \/ \E t \in Tabs : SaveThrows(t)
  \/ \E t \in Tabs : OnStorage(t)
  \/ \E text \in ExternalTexts : ExternalWrite(text)
  \/ ExternalOtherKey
  \/ \E t \in Tabs : Teardown(t)

Spec == Init /\ [][Next]_vars

\* the store alone: only add/update/remove/clear act, on every loaded cart
NextStore ==
  \/ \E t \in Tabs, p \in Products, q \in Quantities :
       \E o \in AddOptions(p.id) : Add(t, p, q, o)
  \/ \E t \in Tabs, id \in ProductIds, q \in Quantities :
       \E o \in MatchOptions(id) : Update(t, id, q, o)
  \/ \E t \in Tabs, id \in ProductIds : \E o \in MatchOptions(id) : Remove(t, id, o)
  \/ \E t \in Tabs : Clear(t)

SpecStore == Init /\ [][NextStore]_vars

(***************************************************************************)
(* Two tabs of the origin, both mounted on the same stored text: each adds *)
(* and clears, writes when its timeout fires (time abstracted) and handles *)
(* the storage events the other tab's writes dispatch to it.               *)
(***************************************************************************)
TabQuantities == {3}

InitTabs == InitFor(Tabs)

NextTabs ==
  \/ \E t \in Tabs, p \in Products, q \in TabQuantities : Add(t, p, q, NoVariant)
  \/ \E t \in Tabs : Clear(t)
  \/ \E t \in Tabs : SaveFire(t)
  \/ \E t \in Tabs : OnStorage(t)

SpecTabs == InitTabs /\ [][NextTabs]_vars

\* the two tabs when setItem may also throw
NextTabsFaulty ==
  \/ \E t \in Tabs, p \in Products, q \in TabQuantities : Add(t, p, q, NoVariant)
  \/ \E t \in Tabs : Clear(t)
  \/ \E t \in Tabs : SaveFire(t)
  \/ \E t \in Tabs : SaveThrows(t)
  \/ \E t \in Tabs : OnStorage(t)

SpecTabsFaulty == InitTabs /\ [][NextTabsFaulty]_vars

(***************************************************************************)
(* The storage listener of one tab against every kind of text another     *)
(* document may leave under the key.                                       *)
(***************************************************************************)
SyncTexts == StoredTexts \cup {Envelope(<<>>)}
SyncQuantities == {3}

NextSync ==
  \/ \E p \in Products, q \in SyncQuantities : Add(1, p, q, NoVariant)
  \/ Clear(1)
  \/ SaveFire(1)
  \/ \E text \in SyncTexts : ExternalWrite(text)
  \/ ExternalOtherKey
  \/ OnStorage(1)

SpecSync == Init /\ [][NextSync]_vars

(***************************************************************************)
(* The debounce in time: one tab, the four operations, and a clock that    *)
(* advances in steps of half the debounce delay.  A timeout fires when its *)
(* delay has elapsed; time does not pass a due timeout.                    *)
(***************************************************************************)
TickMs == SAVE_DEBOUNCE_MS \div 2
BurstAddQuantities == {3, 5}
BurstUpdateQuantities == {0, 5}

\* the delay of the timeout k has elapsed
Due(k) == now - k.at >= SAVE_DEBOUNCE_MS

\* TickMs milliseconds pass while some timeout is pending and none is due
Tick ==
  /\ \E t \in mounted : timer[t] # {}
  /\ \A t \in mounted : \A k \in timer[t] : ~Due(k)
  /\ now' = now + TickMs
  /\ last' = [op |-> "tick"]
  /\ UNCHANGED <<storage, items, timer, memo, inbox, mounted, ops, extWrites, overrideUsed>>

\* a due timeout of the save effect fires and the write succeeds
SaveDue(t) == \E k \in timer[t] : Due(k) /\ saveCallback(t, k, TRUE)

\* a due timeout of the save effect fires and setItem throws
SaveDueThrows(t) == \E k \in timer[t] : Due(k) /\ saveCallback(t, k, FALSE)

NextDebounce ==
  \/ \E p \in Products, q \in BurstAddQuantities : Add(1, p, q, NoVariant)
  \/ \E id \in ProductIds, q \in BurstUpdateQuantities : Update(1, id, q, NoVariant)
  \/ \E id \in ProductIds : Remove(1, id, NoVariant)
  \/ Clear(1)
  \/ Tick
  \/ SaveDue(1)
  \/ SaveDueThrows(1)

\* the clock advances and the event loop runs a due timeout
SpecDebounce ==
  /\ Init
  /\ [][NextDebounce]_vars
  /\ WF_vars(Tick)
  /\ WF_vars(SaveDue(1) \/ SaveDueThrows(1))

(***************************************************************************)
(* The price function on its own: calls of bestUnitPrice on a small space  *)
(* of quantities, base prices and break tables (every order of every       *)
(* subset of the pool, up to MaxBreaks entries).                           *)
(***************************************************************************)
MaxBreaks == 2
PriceQuantities == {0, 3, 5, 8, 10, 12}
BasePrices == {800, 1000}
BreakPool == {[minQty |-> 10, price |-> 900], [minQty |-> 5, price |-> 950],
              [minQty |-> 2, price |-> 1100]}
BreakTables ==
  {<<>>} \cup
  {Some(tb) : tb \in {s \in UNION {[1..n -> BreakPool] : n \in 0..MaxBreaks} :
                        \A i, j \in 1..Len(s) : i # j => s[i] # s[j]}}

InitPrice ==
  /\ storage = AbsentText
  /\ items = [t \in Tabs |-> <<>>]
  /\ timer = [t \in Tabs |-> {}]
  /\ memo = [t \in Tabs |-> NoMemo]
  /\ now = 0
  /\ inbox = [t \in Tabs |-> <<>>]
  /\ mounted = {}
  /\ last = [op |-> "none"]
  /\ ops = 0
  /\ extWrites = 0
  /\ overrideUsed = FALSE

\* one call bestUnitPrice(qty, basePrice, breaks) of CartContext.tsx
CallBestUnitPrice(qty, basePrice, breaks) ==
  /\ last' = [op |-> "bestUnitPrice", qty |-> qty, basePrice |-> basePrice,
              breaks |-> breaks, result |-> bestUnitPrice(qty, basePrice, breaks)]
  /\ UNCHANGED <<now, storage, items, timer, memo, inbox, mounted, ops, extWrites, overrideUsed>>

NextPrice ==
  \E qty \in PriceQuantities, basePrice \in BasePrices, breaks \in BreakTables :
    CallBestUnitPrice(qty, basePrice, breaks)

SpecPrice == InitPrice /\ [][NextPrice]_vars

(***************************************************************************)
(* PricingCalculator.tsx: the price functions of the calculator, called    *)
(* on quantities, base prices and break tables; the pool of the tables     *)
(* holds two breaks with the same minQty.                                  *)
(***************************************************************************)
\* stands for Infinity, the seed of the reduce: above every price of a table
Infinity == HARD_MAX * HARD_MAX

\* breaks.filter((b) => qty >= b.minQty)
eligibleBreaks(qty, tb) == SelectSeq(tb, LAMBDA b : qty >= b.minQty)

\* eligible.reduce((min, b) => Math.min(min, b.price), Infinity), from index i
RECURSIVE reduceMin(_, _, _)
reduceMin(tb, i, min) ==
  IF i > Len(tb) THEN min ELSE reduceMin(tb, i + 1, MathMin(min, tb[i].price))

\* bestUnitPrice(qty, basePrice, breaks?) of the calculator
calcBestUnitPrice(qty, basePrice, breaks) ==
  IF breaks = <<>> \/ Len(breaks[1]) = 0 THEN basePrice
  ELSE IF Len(eligibleBreaks(qty, breaks[1])) = 0 THEN basePrice
       ELSE reduceMin(eligibleBreaks(qty, breaks[1]), 1, Infinity)

\* sorted, by decreasing minQty, with x put behind the entries it ties with
RECURSIVE insertByMinQtyDesc(_, _)
insertByMinQtyDesc(sorted, x) ==
  IF sorted = <<>> THEN <<x>>
  ELSE IF Head(sorted).minQty >= x.minQty
       THEN <<Head(sorted)>> \o insertByMinQtyDesc(Tail(sorted), x)
       ELSE <<x>> \o sorted

\* tb.sort((a, b) => b.minQty - a.minQty): Array.prototype.sort is stable
RECURSIVE sortByMinQtyDesc(_)
sortByMinQtyDesc(tb) ==
  IF tb = <<>> THEN <<>>
  ELSE insertByMinQtyDesc(sortByMinQtyDesc(SubSeq(tb, 1, Len(tb) - 1)), tb[Len(tb)])

\* the first element of an array, or null
firstOrNull(tb) == IF tb = <<>> THEN <<>> ELSE Some(tb[1])

\* applicableBreak sorting the argument itself instead of a copy of it
applicableBreakInPlace(qty, breaks) ==
  IF breaks = <<>> \/ Len(breaks[1]) = 0
  THEN [result |-> <<>>, breaks |-> breaks]
  ELSE [result |-> firstOrNull(eligibleBreaks(qty, sortByMinQtyDesc(breaks[1]))),
        breaks |-> Some(sortByMinQtyDesc(breaks[1]))]

\* applicableBreak taking the first eligible break of the table as it stands
applicableBreakUnsorted(qty, breaks) ==
  IF breaks = <<>> \/ Len(breaks[1]) = 0
  THEN [result |-> <<>>, breaks |-> breaks]
  ELSE [result |-> firstOrNull(eligibleBreaks(qty, breaks[1])), breaks |-> breaks]

\* applicableBreak(qty, breaks?): the value returned (<<>> is null) and the
\* argument as the call leaves it; filter and sort act on the copy [...breaks]
applicableBreak(qty, breaks) ==
  IF breaks = <<>> \/ Len(breaks[1]) = 0
  THEN [result |-> <<>>, breaks |-> breaks]
  ELSE [result |-> firstOrNull(sortByMinQtyDesc(eligibleBreaks(qty, breaks[1]))),
        breaks |-> breaks]

CalcBreakPool == BreakPool \cup {[minQty |-> 5, price |-> 940]}
CalcTables ==
  {<<>>} \cup
  {Some(tb) : tb \in {s \in UNION {[1..n -> CalcBreakPool] : n \in 0..MaxBreaks} :
                        \A i, j \in 1..Len(s) : i # j => s[i] # s[j]}}

InitCalc == InitPrice

\* one call applicableBreak(qty, breaks)
CallApplicableBreak(qty, breaks) ==
  /\ last' = [op |-> "applicableBreak", qty |-> qty, breaks |-> breaks,
              result |-> applicableBreak(qty, breaks).result,
              after |-> applicableBreak(qty, breaks).breaks]
  /\ UNCHANGED <<now, storage, items, timer, memo, inbox, mounted, ops, extWrites, overrideUsed>>

\* the unit price of one product at one quantity, as the calculator shows it
\* and as add() of the cart context stores it
CallUnitPrice(qty, basePrice, breaks) ==
  /\ last' = [op |-> "unitPrice", qty |-> qty, basePrice |-> basePrice,
              breaks |-> breaks,
              calculator |-> calcBestUnitPrice(qty, basePrice, breaks),
              cart |-> bestUnitPrice(qty, basePrice, breaks)]
  /\ UNCHANGED <<now, storage, items, timer, memo, inbox, mounted, ops, extWrites, overrideUsed>>

NextCalc ==
  \/ \E qty \in PriceQuantities, breaks \in CalcTables : CallApplicableBreak(qty, breaks)
  \/ \E qty \in PriceQuantities, basePrice \in BasePrices, breaks \in CalcTables :
       CallUnitPrice(qty, basePrice, breaks)

SpecCalc == InitCalc /\ [][NextCalc]_vars

(***************************************************************************)
(* loadInitial as a function of the stored text: the same list of records  *)
(* is read back as a bare array (legacy format) and as the items of an     *)
(* envelope { v, items }.                                                  *)
(***************************************************************************)
MaxRecords == 2
RecordPool == {NullElem, RecNoId, RecStrUnit, RecX5, RecZ3, RecEdited, RecNullBreak}
RecordLists == UNION {[1..n -> RecordPool] : n \in 0..MaxRecords}
EnvelopeVersions == {STORAGE_VERSION, STORAGE_VERSION + 1}
OtherTexts == {AbsentText, InvalidText, ObjectText([v |-> STORAGE_VERSION])}

InitLoad == InitPrice

\* loadInitial() on the bare array and on the envelope of one record list
CallLoadInitial(list, v) ==
  /\ last' = [op |-> "load", list |-> list, v |-> v,
              legacy |-> loadInitial(ArrayText(list)),
              envelope |-> loadInitial(ObjectText([v |-> v, items |-> list]))]
  /\ UNCHANGED <<now, storage, items, timer, memo, inbox, mounted, ops, extWrites, overrideUsed>>

\* loadInitial() on a text that holds no list of records
CallLoadInitialOther(raw) ==
  /\ last' = [op |-> "loadOther", raw |-> raw, result |-> loadInitial(raw)]
  /\ UNCHANGED <<now, storage, items, timer, memo, inbox, mounted, ops, extWrites, overrideUsed>>

NextLoad ==
  \/ \E list \in RecordLists, v \in EnvelopeVersions : CallLoadInitial(list, v)
  \/ \E raw \in OtherTexts : CallLoadInitialOther(raw)

SpecLoad == InitLoad /\ [][NextLoad]_vars

(***************************************************************************)
(* Vocabulary of the properties                                            *)
(***************************************************************************)
\* the identity of a line: product id, selectedColor, selectedSize
VariantOf(it) == <<it.id, Get(it, "selectedColor"), Get(it, "selectedSize")>>
\* the identity an add/update/remove request addresses
RequestVariant(step) ==
  <<step.id, Get(step.options, "color"), Get(step.options, "size")>>
\* the catalogue entry with a given id
ProductOf(id) == CHOOSE p \in Products : p.id = id
\* effective max quantity of a product or line: min(stock, ceiling)
EffectiveMax(r) == MathMin(Nullish(Get(r, "stock"), HARD_MAX), HARD_MAX)
\* indices of the lines of its that have the identity v
LinesOf(its, v) == {i \in 1..Len(its) : VariantOf(its[i]) = v}
\* prices of the eligible breaks of a table
EligiblePrices(qty, breaks) ==
  IF breaks = <<>> THEN {}
  ELSE {breaks[1][i].price : i \in {j \in 1..Len(breaks[1]) : breaks[1][j].minQty <= qty}}
SetMin(S) == CHOOSE m \in S : \A x \in S : m <= x

(***************************************************************************)
(* Properties                                                              *)
(***************************************************************************)

\* C1: in every reachable cart state (after load of any stored text, after
\* any add/update/remove/clear and after a cross-tab reload) no two lines of
\* a tab have the same variant (product id, selectedColor, selectedSize).
C1_UniqueVariants ==
  \A t \in mounted : \A i, j \in 1..Len(items[t]) :
    i # j => VariantOf(items[t][i]) # VariantOf(items[t][j])

\* C2: variant identity is exact: an add changes an existing line only when
\* that line has the id, the color and the size of the request, and an update
\* or remove changes or deletes only lines with the id, color and size it
\* addresses ('|' inside color or size included).
C2_ExactIdentity ==
  [][ last'.op \in {"add", "update", "remove"} =>
        LET t == last'.tab
            prev == items[t]
            next == items'[t]
        IN \A i \in 1..Len(prev) :
             VariantOf(prev[i]) # RequestVariant(last') =>
               \E j \in 1..Len(next) : next[j] = prev[i] ]_vars

\* C3: add either leaves the cart unchanged or leaves the line of the
\* requested variant with a quantity in [max(1, minQuantity), effectiveMax],
\* effectiveMax = min(stock, ceiling), for a new line and for a merged line.
C3_AddQuantityInRange ==
  [][ last'.op = "add" =>
        LET t == last'.tab
            p == ProductOf(last'.id)
            lo == MathMax(1, Nullish(Get(p, "minQuantity"), 1))
            next == items'[t]
        IN \/ next = items[t]
           \/ \A i \in LinesOf(next, RequestVariant(last')) :
                lo <= next[i].quantity /\ next[i].quantity <= EffectiveMax(p) ]_vars

\* C4: update on an existing line sets its quantity to the requested value
\* clamped to [0, effectiveMax], effectiveMax = min(stock, ceiling) of the
\* line: the line is deleted when that is 0 and holds that quantity otherwise,
\* whether the line's stock is positive, 0 or absent.
C4_UpdateAbsoluteClamped ==
  [][ last'.op = "update" =>
        LET t == last'.tab
            v == RequestVariant(last')
            prev == items[t]
            next == items'[t]
        IN \A i \in LinesOf(prev, v) :
             LET want == MathMax(0, MathMin(last'.quantity, EffectiveMax(prev[i])))
             IN IF want = 0 THEN LinesOf(next, v) = {}
                ELSE \E j \in LinesOf(next, v) : next[j].quantity = want ]_vars

\* C5: after an add or an update, the line of the addressed variant has a
\* quantity no greater than its product's maxQuantity (when defined) and no
\* greater than the hard ceiling 10000.
C5_TightestUpperBound ==
  last.op \in {"add", "update"} =>
    \A i \in LinesOf(items[last.tab], RequestVariant(last)) :
      LET it == items[last.tab][i]
      IN /\ it.quantity <= HARD_MAX
         /\ "maxQuantity" \in DOMAIN it => it.quantity <= it.maxQuantity

\* C6: no line with quantity <= 0 exists in any in-memory cart state, the
\* state loaded from an arbitrary stored text included, and no envelope
\* written by the save effect contains such a line.
C6_NoZeroQuantity ==
  /\ \A t \in mounted : \A i \in 1..Len(items[t]) : items[t][i].quantity > 0
  /\ (last.op = "save" /\ last.ok) =>
       \A i \in 1..Len(storage.props.items) :
         storage.props.items[i].fields.quantity > 0

\* C7: as long as no add was given an overrideUnitPrice, every line of every
\* reachable state has unitPrice = bestUnitPrice(quantity, basePrice,
\* priceBreaks).
C7_UnitPriceIsBest ==
  ~overrideUsed =>
    \A t \in mounted : \A i \in 1..Len(items[t]) :
      LET it == items[t][i]
      IN it.unitPrice = bestUnitPrice(it.quantity, it.basePrice, Get(it, "priceBreaks"))

\* sum of unitPrice * quantity over the lines from index i
RECURSIVE SumOfProducts(_, _)
SumOfProducts(its, i) ==
  IF i > Len(its) THEN 0
  ELSE its[i].unitPrice * its[i].quantity + SumOfProducts(its, i + 1)

\* C8: in every reachable state, the state loaded from any stored text
\* included, every line has totalPrice = unitPrice * quantity and subtotal is
\* the sum of unitPrice * quantity over the lines.
C8_TotalIsUnitTimesQuantity ==
  \A t \in mounted :
    /\ \A i \in 1..Len(items[t]) :
         items[t][i].totalPrice = items[t][i].unitPrice * items[t][i].quantity
    /\ subtotal(t) = SumOfProducts(items[t], 1)

\* C9: bestUnitPrice returns the minimum price among the breaks with
\* minQty <= quantity, whatever the order of the table, and basePrice exactly
\* when no break is eligible (so an only eligible break priced above
\* basePrice gives that break's price).
C9_BestIsMinEligible ==
  last.op = "bestUnitPrice" =>
    LET eligible == EligiblePrices(last.qty, last.breaks)
    IN last.result = IF eligible = {} THEN last.basePrice ELSE SetMin(eligible)

\* the unit price the price table of product p gives at quantity qty
TablePrice(p, qty) ==
  IF EligiblePrices(qty, Get(p, "priceBreaks")) = {} THEN p.basePrice
  ELSE MathMin(p.basePrice, SetMin(EligiblePrices(qty, Get(p, "priceBreaks"))))

\* the merged line idx of next holds quantity qty at unit price unit, and the
\* other lines of prev are where and what they were
MergedInto(prev, next, idx, qty, unit) ==
  /\ Len(next) = Len(prev)
  /\ \A i \in 1..Len(prev) : i # idx => next[i] = prev[i]
  /\ VariantOf(next[idx]) = VariantOf(prev[idx])
  /\ next[idx].quantity = qty
  /\ next[idx].unitPrice = unit
  /\ next[idx].totalPrice = unit * qty

\* the quantity of a merge: the request clamped to [lo, top], summed into the
\* existing quantity, clamped to [1, top]
MergedQuantity(existing, requested, lo, top) ==
  MathMax(1, MathMin(existing + MathMax(lo, MathMin(requested, top)), top))

MergeAddPost(prev, next, idx, p, step, qty) ==
  /\ MergedInto(prev, next, idx, qty,
                IF "overrideUnitPrice" \in DOMAIN step.options
                THEN step.options.overrideUnitPrice ELSE TablePrice(p, qty))
  /\ (/\ Len(prev) = 1 /\ prev[1].quantity = 5 /\ step.id = 1 /\ step.quantity = 3
      /\ "overrideUnitPrice" \notin DOMAIN step.options)
     => (next[1].quantity = 8 /\ next[1].unitPrice = 950)

MergeAddStep(prev, next, idx, p, step) ==
  MergeAddPost(prev, next, idx, p, step,
               MergedQuantity(prev[idx].quantity, step.quantity,
                              MathMax(1, Nullish(Get(p, "minQuantity"), 1)),
                              Nullish(Get(p, "stock"), HARD_MAX)))

OverrideAddPost(next, key, override) ==
  LET idx == findIndex(next, key)
  IN /\ idx > 0
     /\ next[idx].unitPrice = override
     /\ next[idx].totalPrice = override * next[idx].quantity

\* C11: after an add that carries an overrideUnitPrice, the line it created
\* or merged into has unitPrice equal to the override, whatever
\* bestUnitPrice would return, and totalPrice = override * quantity.
C11_OverrideVerbatim ==
  (last.op = "add" /\ "overrideUnitPrice" \in DOMAIN last.options) =>
    OverrideAddPost(items[last.tab],
                    variantKey(last.id, Get(last.options, "color"),
                               Get(last.options, "size")),
                    last.options.overrideUnitPrice)

\* an add with an override has merged into an existing line, and the table
\* price of the merged quantity is another price
C11_Witness ==
  /\ last.op = "add"
  /\ last.hit
  /\ "overrideUnitPrice" \in DOMAIN last.options
  /\ LET idx == findIndex(items[last.tab], variantKey(last.id, Undefined, Undefined))
         it == items[last.tab][idx]
     IN /\ it.unitPrice = last.options.overrideUnitPrice
        /\ it.unitPrice # bestUnitPrice(it.quantity, it.basePrice, Get(it, "priceBreaks"))
        /\ it.quantity > last.quantity
\* the lines of its whose identity is not v, in order
OtherLines(its, v) == FilterSeq(its, {i \in 1..Len(its) : VariantOf(its[i]) # v}, 1)

\* an update or remove addressed to the identity v took prev to next: the
\* other lines are the same records in the same order, and nothing changes
\* when no line has the identity v
OnlyAddressedLine(prev, next, v) ==
  /\ OtherLines(next, v) = OtherLines(prev, v)
  /\ LinesOf(prev, v) = {} => next = prev

\* C12: update and remove change at most the line whose (product id, color,
\* size) equals the request; every other line keeps its quantity, prices and
\* relative position, and when no line matches the items are unchanged.
C12_OnlyAddressedLine ==
  [][last'.op \in {"update", "remove"} =>
       OnlyAddressedLine(items[last'.tab], items'[last'.tab], RequestVariant(last'))]_vars
\* the key a recorded update or remove request addresses
RequestKey(step) ==
  variantKey(step.id, Get(step.options, "color"), Get(step.options, "size"))
\* no line of its has the key
KeyAbsent(its, key) == \A i \in 1..Len(its) : lineKey(its[i]) # key

\* remove(key) took prev to next
RemovePost(prev, next, key, afterZero) ==
  /\ KeyAbsent(next, key)
  /\ Len(next) < Len(prev) <=> ~KeyAbsent(prev, key)
  /\ KeyAbsent(prev, key) => next = prev
  /\ afterZero => KeyAbsent(prev, key) /\ next = prev

RECURSIVE SumOfField(_, _)
SumOfField(its, f) ==
  IF its = <<>> THEN 0
  ELSE its[Len(its)][f] + SumOfField(SubSeq(its, 1, Len(its) - 1), f)

\* C14: in every reachable state, of every mounted tab, count is the sum of
\* the quantities of the current lines and subtotal the sum of their
\* totalPrice: after add, update, remove, clear and after a cross-tab
\* reload the values the context hands out are those of the new items.
C14_DerivedFromItems ==
  \A t \in mounted :
    /\ count(t) = SumOfField(items[t], "quantity")
    /\ subtotal(t) = SumOfField(items[t], "totalPrice")

\* a storage event has made the tab reload a cart that is not empty, and
\* count and subtotal are those of the reloaded lines
C14_Witness ==
  /\ last.op = "storage"
  /\ last.reloaded
  /\ ops > 0
  /\ count(last.tab) > 0
  /\ count(last.tab) = SumOfField(items[last.tab], "quantity")
  /\ subtotal(last.tab) = SumOfField(items[last.tab], "totalPrice")
\* a stored element with a numeric id, a numeric basePrice and a numeric
\* quantity
HasNumericCore(x) ==
  /\ x.kind = "object"
  /\ TypeofNumber(x, "id")
  /\ TypeofNumber(x, "basePrice")
  /\ TypeofNumber(x, "quantity")
\* the records of a stored list that have the numeric core, in order
CoreRecords(list) ==
  FilterSeq(list, {i \in 1..Len(list) : HasNumericCore(list[i])}, 1)
\* the loaded lines are the given stored records, one for one and in order
SameRecords(lines, recs) ==
  /\ Len(lines) = Len(recs)
  /\ \A i \in 1..Len(recs) :
       /\ lines[i].id = recs[i].fields.id
       /\ lines[i].basePrice = recs[i].fields.basePrice
       /\ lines[i].quantity = recs[i].fields.quantity

C17_LegacyEqualsEnvelope ==
  last.op = "load" => last.legacy = last.envelope

\* a list with a record that is dropped and a record that is kept has been
\* loaded in both formats, the envelope carrying another version number
C17_Witness ==
  /\ last.op = "load"
  /\ last.v # STORAGE_VERSION
  /\ last.legacy # <<>>
  /\ Len(last.legacy) < Len(last.list)
  /\ last.legacy = last.envelope
\* C18: for every cart reachable through add, update, remove and clear:
\* saving it, loading the saved text and saving again gives the envelope of
\* the first save (same version, same lines in the same order with the same
\* quantities and prices), and the loaded items are the saved items.
C18_RoundTrip ==
  \A t \in mounted :
    /\ loadInitial(StringifyPayload(items[t])) = items[t]
    /\ StringifyPayload(loadInitial(StringifyPayload(items[t]))) = StringifyPayload(items[t])
    /\ StringifyPayload(items[t]).props.v = STORAGE_VERSION

\* two operations have left a cart with a line priced by an override, not
\* by its break table, and the cart survives the round trip
C18_Witness ==
  /\ ops = 2
  /\ last.op = "add"
  /\ "overrideUnitPrice" \in DOMAIN last.options
  /\ Len(items[1]) > 1
  /\ \E i \in 1..Len(items[1]) :
       items[1][i].unitPrice # bestUnitPrice(items[1][i].quantity, items[1][i].basePrice,
                                             Get(items[1][i], "priceBreaks"))
  /\ loadInitial(StringifyPayload(items[1])) = items[1]
\* the step is a write attempt of tab t that comes one debounce delay after
\* the last render, carries the items of that render and leaves no timeout
\* pending
TrailingWrite(step, its, pending) ==
  step.op = "save" =>
    /\ step.age = SAVE_DEBOUNCE_MS
    /\ step.payload = its
    /\ pending = {}

\* C19: mutations that follow one another within less than the debounce
\* delay leave one pending write at any time; every write is issued one
\* delay (120 ms) after the last mutation and carries the items as they are
\* after it, never an intermediate state; and the pending write of a burst
\* is eventually issued.
C19_DebounceSingleWrite ==
  /\ [][/\ Cardinality(timer'[1]) <= 1
        /\ TrailingWrite(last', items[1], timer'[1])]_vars
  /\ (timer[1] # {}) ~>
       (last.op = "save" /\ last.payload = items[1] /\ timer[1] = {})

\* two mutations within 60 ms of each other, the first at mount time; the
\* one write of the burst has just been issued, 120 ms after the second,
\* with the items the second mutation left
C19_Witness ==
  /\ last.op = "save"
  /\ last.ok
  /\ ops = 2
  /\ now = TickMs + SAVE_DEBOUNCE_MS
  /\ last.age = SAVE_DEBOUNCE_MS
  /\ last.payload = items[1]
  /\ items[1] # <<>>
  /\ storage = StringifyPayload(items[1])
  /\ timer[1] = {}
\* C20: when a tab reconciles with a write of the other tab, its count is
\* that of the stored cart, the other tab's addition included, and the
\* reconciliation is not followed by a storage write of the reconciling tab.
C20_ReconcileWithoutWrite ==
  [][/\ (last'.op = "storage" /\ last'.reloaded) =>
          memo'[last'.tab].count = SumOfField(loadInitial(storage'), "quantity")
     /\ ~(/\ last.op = "storage"
          /\ last.reloaded
          /\ last'.op = "save"
          /\ last'.tab = last.tab)]_vars
\* every timeout has fired and every storage event has been handled
Quiescent == \A t \in mounted : timer[t] = {} /\ inbox[t] = <<>>

\* C21: with two tabs on the key, once every debounce timer has fired and
\* every storage notification has been delivered, both tabs hold the same
\* items, which are the items of the envelope that was written last.
C21_Convergence ==
  Quiescent => \A t \in mounted : items[t] = loadInitial(storage)
\* the candidate records of a stored text: the bare array, or the items of
\* an envelope
RecordsOfText(text) ==
  IF text.kind = "array" THEN text.elems
  ELSE IF text.kind = "object" /\ "items" \in DOMAIN text.props THEN text.props.items
  ELSE <<>>

\* the listener handled the event e in a tab holding prev; stored is the
\* text under the key at that time and next the items the tab holds after
SyncPost(e, prev, next, stored) ==
  IF e.key # STORAGE_KEY \/ e.newValue.kind \in {"absent", "invalid"}
  THEN next = prev
  ELSE RecordsOfText(e.newValue) # StringifyItems(prev) => next = loadInitial(stored)

\* C22: a storage notification for the cart key with a non-empty new value
\* whose items differ from the tab's items makes the tab hold the result of
\* loadInitial, the validated read of storage, not the raw payload; a
\* notification for another key, with an empty or an unparseable new value
\* leaves the items as they are.
C22_ReconcileThroughLoad ==
  [][last'.op = "storage" =>
       SyncPost(Head(inbox[last'.tab]), items[last'.tab], items'[last'.tab], storage)]_vars
Mutations == {"add", "update", "remove", "clear"}

\* the recorded mutation shows in the items next
MutationApplied(step, next) ==
  /\ step.op = "add" => ~KeyAbsent(next, RequestKey(step))
  /\ step.op = "remove" => KeyAbsent(next, RequestKey(step))
  /\ (step.op = "update" /\ step.quantity <= 0) => KeyAbsent(next, RequestKey(step))
  /\ step.op = "clear" => next = <<>>

\* a write is pending in tab t for the items next of a mutation
WriteScheduled(pending, next) ==
  \E k \in pending : k.items = next /\ k.by = "mutation"

\* C23: a storage write that throws leaves the provider mounted and the
\* items, count, subtotal and stored text exactly as before the attempt; a
\* mutation that follows is applied and schedules a write.
C23_WriteFailureIgnored ==
  [][/\ (last'.op = "save" /\ ~last'.ok) =>
          /\ items' = items
          /\ memo' = memo
          /\ storage' = storage
          /\ mounted' = mounted
     /\ (last.op = "save" /\ ~last.ok /\ last'.op \in Mutations) =>
          /\ MutationApplied(last', items'[last'.tab])
          /\ WriteScheduled(timer'[last'.tab], items'[last'.tab])]_vars

\* the write of a mutation has thrown: the cart still holds the lines that
\* storage does not, and a further mutation is possible
C23_Witness ==
  /\ last.op = "save"
  /\ ~last.ok
  /\ last.by = "mutation"
  /\ items[1] # <<>>
  /\ items[1] # loadInitial(storage)
  /\ count(1) > 0
  /\ 1 \in mounted
  /\ ops < MaxOps
\* storage holds the envelope { v: 1, items } of the items its
HoldsEnvelopeOf(text, its) ==
  /\ text.kind = "object"
  /\ text.props.v = STORAGE_VERSION
  /\ text.props.items = StringifyItems(its)

\* C24: after an add, update, remove or clear the write of the tab is
\* eventually attempted, and when it succeeds storage holds the envelope
\* { v: 1, items } of the items the tab then holds, never a bare array.
C24_EventuallyPersisted ==
  (last.op \in Mutations) ~>
    (/\ last.op = "save"
     /\ last.by = "mutation"
     /\ last.ok => HoldsEnvelopeOf(storage, items[1]))

\* the write of the second of two mutations has succeeded and storage holds
\* the envelope of a cart that is not empty
C24_Witness ==
  /\ last.op = "save"
  /\ last.ok
  /\ last.by = "mutation"
  /\ ops = 2
  /\ items[1] # <<>>
  /\ HoldsEnvelopeOf(storage, items[1])

\* a notification that reaches a tab was caused by a write which that tab's
\* peer scheduled when it reconciled, not by a mutation of the peer
CausedByReconciliation(t) ==
  /\ inbox[t] # <<>>
  /\ Head(inbox[t]).by = "reload"

\* C25: no feedback loop between two tabs: a tab never reconciles with a
\* write that its peer issued because the peer itself reconciled, and once
\* no timeout is pending and no notification is undelivered the tabs stay
\* so until the next add or clear.
C25_NoFeedbackLoop ==
  [][/\ (last'.op = "storage" /\ last'.reloaded) =>
          ~CausedByReconciliation(last'.tab)
     /\ (Quiescent /\ ops' = ops) => Quiescent']_vars

\* C26: loading by itself never writes storage: while no add, update,
\* remove or clear has been issued, a write of the provider leaves the
\* stored text as it was found.
C26_LoadNeverWrites ==
  [][(last'.op = "save" /\ ops' = 0) => storage' = storage]_vars

\* C27: a torn-down provider holds no pending timeout and performs no
\* storage write: the timeout pending at teardown is cancelled, whatever
\* mutations preceded the teardown.
C27_NoWriteAfterTeardown ==
  [][/\ \A t \in Tabs \ mounted' : timer'[t] = {}
     /\ last'.op = "save" => last'.tab \in mounted']_vars

\* the provider was torn down after two mutations while their write was
\* still pending, and storage never received it
C27_Witness ==
  /\ last.op = "unmount"
  /\ last.pending
  /\ ops = 2
  /\ 1 \notin mounted
  /\ timer[1] = {}
  /\ items[1] # <<>>
  /\ ~HoldsEnvelopeOf(storage, items[1])

\* the break table of a recorded call, an absent table being an empty one
TableOf(breaks) == IF breaks = <<>> THEN <<>> ELSE breaks[1]

\* the indices of the breaks of tb a quantity has reached
Reached(qty, tb) == {i \in 1..Len(tb) : tb[i].minQty <= qty}

\* every reordering of a table
Reorderings(tb) ==
  {[i \in 1..Len(tb) |-> tb[p[i]]] :
     p \in {f \in [1..Len(tb) -> 1..Len(tb)] : \A i, j \in 1..Len(tb) : i # j => f[i] # f[j]}}

DistinctMinQty(tb) == \A i, j \in 1..Len(tb) : i # j => tb[i].minQty # tb[j].minQty

\* C28: applicableBreak returns a break of the table whose minQty is the
\* highest among those the quantity has reached, and null exactly when the
\* table is absent or empty or no break is reached; with distinct minQty
\* values every reordering of the table gives the same break; the table
\* passed in is left in its order.
C28_ApplicableBreak ==
  last.op = "applicableBreak" =>
    /\ (last.result = <<>>) <=> (Reached(last.qty, TableOf(last.breaks)) = {})
    /\ last.result # <<>> =>
          \E i \in Reached(last.qty, TableOf(last.breaks)) :
            /\ TableOf(last.breaks)[i] = last.result[1]
            /\ \A j \in Reached(last.qty, TableOf(last.breaks)) :
                 TableOf(last.breaks)[j].minQty <= last.result[1].minQty
    /\ DistinctMinQty(TableOf(last.breaks)) =>
          \A tb \in Reorderings(TableOf(last.breaks)) :
            applicableBreak(last.qty, Some(tb)).result = last.result
    /\ last.after = last.breaks

\* a call on a table in increasing order of minQty whose two breaks are both
\* reached: the second one is returned
C28_Witness ==
  /\ last.op = "applicableBreak"
  /\ last.breaks # <<>>
  /\ Len(last.breaks[1]) = 2
  /\ last.breaks[1][1].minQty < last.breaks[1][2].minQty
  /\ Reached(last.qty, last.breaks[1]) = {1, 2}
  /\ last.result = Some(last.breaks[1][2])

\* C29: for every quantity, base price and break table the bestUnitPrice of
\* the calculator and the bestUnitPrice of the cart context return the same
\* value.
C29_SamePrice ==
  last.op = "unitPrice" => last.calculator = last.cart

\* the write of a mutation of tab t is still pending
WritePending(t) == \E k \in timer[t] : k.by = "mutation"

\* next holds a line of the key with at least the quantity prev holds for it
LineKept(prev, next, key) ==
  \A i \in 1..Len(prev) :
    lineKey(prev[i]) = key =>
      \E j \in 1..Len(next) :
        /\ lineKey(next[j]) = key
        /\ next[j].quantity >= prev[i].quantity

\* C30: a local mutation is not lost to reconciliation: when a tab has
\* applied an add whose debounced write is still pending and then handles a
\* storage notification that a mutation of its peer caused, the line the add
\* produced is still in the items of the tab after the reconciliation.
C30_MutationSurvivesReconciliation ==
  [][(/\ last.op = "add"
      /\ WritePending(last.tab)
      /\ inbox[last.tab] # <<>>
      /\ Head(inbox[last.tab]).by = "mutation"
      /\ last'.op = "storage"
      /\ last'.tab = last.tab)
       => LineKept(items[last.tab], items'[last.tab], RequestKey(last))]_vars
====
